---- MODULE Spec2Model ----
(***************************************************************************)
(* Column-region refinement of scripts/hebrew_images: the geometric        *)
(* functions of utils.py (get_fallback_coords, expand_vertical_range,      *)
(* split_wide_region) and the edge-cut repair of validation.py             *)
(* (expand_width_if_text_cut).  Each function is a pure function of its    *)
(* arguments; a specification draws the arguments in Init and its actions  *)
(* call the function and record what it returns.                           *)
(***************************************************************************)
EXTENDS Integers, Sequences, FiniteSets

VARIABLES
    pc,          \* "ready" before the call, "returned" after it
    fn,          \* the function the specification calls
    width,       \* image width  (thresh.shape[1] for the repair)
    height,      \* image height (thresh.shape[0] for the repair)
    box,         \* argument box (x, y, w, h)
    region,      \* argument (x0, x1): left and right edge of a wide region
    thresh,      \* argument thresh: the binary mask of the page
    max_expand,  \* argument max_expand of the repair
    result,      \* the value the last call returned
    calls        \* number of calls made so far

vars == <<pc, fn, width, height, box, region, thresh, max_expand, result, calls>>

(***************************************************************************)
(* Bounds of the explored inputs.                                          *)
(***************************************************************************)
MaxWidth == 3000
MaxHeight == 3000
MaxCalls == 2
MaxSplitWidth == 2000
GridStep == 50
MaskRows == 100
MaxRun == 12
MaxImages == 2

(***************************************************************************)
(* Arithmetic of the source.                                               *)
(***************************************************************************)
Max(a, b) == IF a >= b THEN a ELSE b
Min(a, b) == IF a <= b THEN a ELSE b

\* int(n / d) of Python: the quotient truncated toward zero.
TruncDiv(n, d) == IF n >= 0 THEN n \div d ELSE -((-n) \div d)

\* int(n * 0.pp): the product truncated toward zero, pct in hundredths.
IntPct(n, pct) == TruncDiv(n * pct, 100)

NoValue == <<>>

(***************************************************************************)
(* utils.py: get_fallback_coords                                           *)
(***************************************************************************)
\* Variant: the products rounded to the nearest integer instead of truncated.
get_fallback_coords_rounded(w_img, h_img) ==
    LET x == (w_img * 28 + 50) \div 100
        w == Max(700, Min(1100, (w_img * 40 + 50) \div 100))
    IN  [x |-> x, y |-> 0, w |-> w, h |-> h_img]

\* Variant: the 700 px minimum width left out.
get_fallback_coords_no_min(w_img, h_img) ==
    LET x == IntPct(w_img, 28)
        w == Min(1100, IntPct(w_img, 40))
    IN  [x |-> x, y |-> 0, w |-> w, h |-> h_img]

get_fallback_coords(w_img, h_img) ==
    LET x == IntPct(w_img, 28)
        w == Max(700, Min(1100, IntPct(w_img, 40)))
    IN  [x |-> x, y |-> 0, w |-> w, h |-> h_img]

(***************************************************************************)
(* utils.py: expand_vertical_range                                         *)
(***************************************************************************)
\* Variant: the detected y is kept as the top of the range.
expand_vertical_range_keep_y(b, h_img) ==
    LET y0_start == b[2]
        y1_end == Min(h_img - 1, IntPct(h_img, 93))
    IN  <<b[1], y0_start, b[3], y1_end - y0_start>>

\* Variant: the products rounded to the nearest integer instead of truncated.
expand_vertical_range_rounded(b, h_img) ==
    LET y0_start == Max(0, Min(50, (h_img * 2 + 50) \div 100))
        y1_first == Min(h_img - 1, (h_img * 93 + 50) \div 100)
        h_first == y1_first - y0_start
        min_height == (h_img * 85 + 50) \div 100
        y1_end == IF h_first < min_height
                  THEN Min(h_img - 1, y0_start + min_height)
                  ELSE y1_first
    IN  <<b[1], y0_start, b[3], y1_end - y0_start>>

\* Variant: the top margin is added to the y of the box it is given.
expand_vertical_range_relative(b, h_img) ==
    LET y0_start == Max(0, Min(50, b[2] + IntPct(h_img, 2)))
        y1_end == Min(h_img - 1, IntPct(h_img, 93))
    IN  <<b[1], y0_start, b[3], y1_end - y0_start>>

\* Variant: width and height swapped in the returned tuple.
expand_vertical_range_swapped(b, h_img) ==
    LET y0_start == Max(0, Min(50, IntPct(h_img, 2)))
        y1_end == Min(h_img - 1, IntPct(h_img, 93))
    IN  <<b[1], y0_start, y1_end - y0_start, b[3]>>

\* Variant: the full image height is kept below the top margin.
expand_vertical_range_full_height(b, h_img) ==
    LET y0_start == Max(0, Min(50, IntPct(h_img, 2)))
    IN  <<b[1], y0_start, b[3], h_img>>

\* Variant: the minimum height is 95% of the page instead of 85%.
expand_vertical_range_min95(b, h_img) ==
    LET y0_start == Max(0, Min(50, IntPct(h_img, 2)))
        y1_first == Min(h_img - 1, IntPct(h_img, 93))
        min_height == IntPct(h_img, 95)
        y1_end == IF y1_first - y0_start < min_height
                  THEN Min(h_img - 1, y0_start + min_height)
                  ELSE y1_first
    IN  <<b[1], y0_start, b[3], y1_end - y0_start>>

expand_vertical_range(b, h_img) ==
    LET x == b[1]
        w == b[3]
        y0_start == Max(0, Min(50, IntPct(h_img, 2)))
        y1_first == Min(h_img - 1, IntPct(h_img, 93))
        h_first == y1_first - y0_start
        min_height == IntPct(h_img, 85)
        y1_end == IF h_first < min_height
                  THEN Min(h_img - 1, y0_start + min_height)
                  ELSE y1_first
        h_expanded == y1_end - y0_start
    IN  <<x, y0_start, w, h_expanded>>

(***************************************************************************)
(* utils.py: split_wide_region                                             *)
(***************************************************************************)
\* Variant: the products rounded to the nearest integer instead of truncated.
split_wide_region_rounded(x0, x1, w_img) ==
    LET w_original == x1 - x0
        split_first == IF x0 < 100
                       THEN Max(400, (w_img * 25 + 50) \div 100)
                       ELSE Max(x0 + 400, x0 + (w_original * 30 + 50) \div 100)
        split_x == IF x1 - split_first < 800
                   THEN Max(400, Max(x0, x1 - 1100))
                   ELSE split_first
    IN  <<split_x, Min(x1 - split_x, 1100)>>

\* Variant: the adjusted split point is x1 - 1100, not kept right of x0 and 400.
split_wide_region_no_left_clamp(x0, x1, w_img) ==
    LET w_original == x1 - x0
        split_first == IF x0 < 100
                       THEN Max(400, IntPct(w_img, 25))
                       ELSE Max(x0 + 400, TruncDiv(10 * x0 + 3 * w_original, 10))
        split_x == IF x1 - split_first < 800 THEN x1 - 1100 ELSE split_first
    IN  <<split_x, Min(x1 - split_x, 1100)>>

\* Variant: the adjusted split point is not kept right of 400.
split_wide_region_no_400_clamp(x0, x1, w_img) ==
    LET w_original == x1 - x0
        split_first == IF x0 < 100
                       THEN Max(400, IntPct(w_img, 25))
                       ELSE Max(x0 + 400, TruncDiv(10 * x0 + 3 * w_original, 10))
        split_x == IF x1 - split_first < 800 THEN Max(x0, x1 - 1100) ELSE split_first
    IN  <<split_x, Min(x1 - split_x, 1100)>>

split_wide_region(x0, x1, w_img) ==
    LET w_original == x1 - x0
        split_first == IF x0 < 100
                       THEN Max(400, IntPct(w_img, 25))
                       ELSE Max(x0 + 400, TruncDiv(10 * x0 + 3 * w_original, 10))
        w_first == x1 - split_first
        split_x == IF w_first < 800
                   THEN Max(400, Max(x0, x1 - 1100))
                   ELSE split_first
        w_second == x1 - split_x
        w_final == Min(w_second, 1100)
    IN  <<split_x, w_final>>

(***************************************************************************)
(* utils.py: validate_column_width, reject_first_column                    *)
(***************************************************************************)
VERTICAL_WIDTH_RANGE == <<800, 1200>>

\* Variant: 60% of the page rounded to the nearest integer instead of truncated.
validate_column_width_rounded(w, w_img) ==
    LET max_allowed_width == Min(VERTICAL_WIDTH_RANGE[2] + 200, (w_img * 60 + 50) \div 100)
        min_allowed_width == Max(600, VERTICAL_WIDTH_RANGE[1] - 200)
    IN  min_allowed_width <= w /\ w <= max_allowed_width

\* Variant: the cap at 60% of the page left out.
validate_column_width_no_cap(w, w_img) ==
    LET max_allowed_width == VERTICAL_WIDTH_RANGE[2] + 200
        min_allowed_width == Max(600, VERTICAL_WIDTH_RANGE[1] - 200)
    IN  min_allowed_width <= w /\ w <= max_allowed_width

\* Variant: the minimum allowed width left out.
validate_column_width_no_min(w, w_img) ==
    LET max_allowed_width == Min(VERTICAL_WIDTH_RANGE[2] + 200, IntPct(w_img, 60))
    IN  w <= max_allowed_width

validate_column_width(w, w_img) ==
    LET max_allowed_width == Min(VERTICAL_WIDTH_RANGE[2] + 200, IntPct(w_img, 60))
        min_allowed_width == Max(600, VERTICAL_WIDTH_RANGE[1] - 200)
    IN  min_allowed_width <= w /\ w <= max_allowed_width

\* Variant: 5% of the page rounded to the nearest integer instead of truncated.
reject_first_column_rounded(x, w_img) ==
    LET min_x_threshold == Max(50, (w_img * 5 + 50) \div 100)
    IN  x < min_x_threshold

reject_first_column(x, w_img) ==
    LET min_x_threshold == Max(50, IntPct(w_img, 5))
    IN  x < min_x_threshold

(***************************************************************************)
(* validation.py: expand_width_if_text_cut                                 *)
(*                                                                         *)
(* A mask is [rows, cols, bands]: an array of rows x cols samples in which *)
(* every column of band <<lo, hi, ink>> (columns lo .. hi-1) holds ink     *)
(* positive samples; columns of no band hold none.                         *)
(***************************************************************************)
\* thresh[:, a:b].size for 0 <= a, 0 <= b: the slice is clipped to the array.
SliceSize(t, a, b) == t.rows * Max(0, Min(b, t.cols) - Min(a, t.cols))

Overlap(lo, hi, a, b) == Max(0, Min(hi, b) - Max(lo, a))

RECURSIVE BandInk(_, _, _, _)
BandInk(bands, i, a, b) ==
    IF i > Len(bands) THEN 0
    ELSE Overlap(bands[i][1], bands[i][2], a, b) * bands[i][3]
         + BandInk(bands, i + 1, a, b)

\* np.sum(thresh[:, a:b] > 0)
SliceInk(t, a, b) == BandInk(t.bands, 1, Min(a, t.cols), Min(b, t.cols))

\* np.sum(region > 0) / region.size > pct / 100
DensityAbove(t, a, b, pct) == 100 * SliceInk(t, a, b) > pct * SliceSize(t, a, b)

\* Variant: the walk records the start of the next strip (check_x + 20), not
\* the end of the strip it measured.
RECURSIVE WalkBestEnd_next_start(_, _, _, _)
WalkBestEnd_next_start(t, check_x, expand_full_end, best_end) ==
    IF check_x >= expand_full_end THEN best_end
    ELSE IF SliceSize(t, check_x, Min(check_x + 40, t.cols)) = 0 THEN best_end
    ELSE IF DensityAbove(t, check_x, Min(check_x + 40, t.cols), 8)
         THEN WalkBestEnd_next_start(t, check_x + 20, expand_full_end, check_x + 20)
         ELSE best_end

\* The loop over range(expand_start, expand_full_end, 20), entered at check_x.
RECURSIVE WalkBestEnd(_, _, _, _)
WalkBestEnd(t, check_x, expand_full_end, best_end) ==
    IF check_x >= expand_full_end THEN best_end
    ELSE IF SliceSize(t, check_x, Min(check_x + 40, t.cols)) = 0 THEN best_end
    ELSE IF DensityAbove(t, check_x, Min(check_x + 40, t.cols), 8)
         THEN WalkBestEnd(t, check_x + 20, expand_full_end, check_x + 40)
         ELSE best_end

\* Variants of expand_width_if_text_cut: skip_at is the width from which a
\* column is skipped, edge_gate whether the right-edge density is consulted,
\* cap the maximum width, slack the gain (beyond 40 px) that is not required.
RepairVariant(t, x, w, maxexp, skip_at, edge_gate, cap, slack) ==
    LET w_img == t.cols
        right_edge_start == Max(x + w - 40, x)
        right_edge_end == Min(x + w, w_img)
        expand_start == Min(x + w, w_img - 1)
        expand_end == Min(x + w + 60, w_img)
        expand_full_end == Min(x + w + maxexp, w_img)
        best_end == WalkBestEnd(t, expand_start, expand_full_end, expand_start)
        new_w == Min(best_end - x, cap)
    IN  IF w >= skip_at THEN <<x, w>>
        ELSE IF SliceSize(t, right_edge_start, right_edge_end) = 0 THEN <<x, w>>
        ELSE IF edge_gate /\ ~DensityAbove(t, right_edge_start, right_edge_end, 18)
             THEN <<x, w>>
        ELSE IF ~(expand_end > expand_start) THEN <<x, w>>
        ELSE IF ~DensityAbove(t, expand_start, expand_end, 12) THEN <<x, w>>
        ELSE IF ~(best_end > expand_start + 40 - slack) THEN <<x, w>>
        ELSE IF new_w > w + 40 - slack THEN <<x, new_w>>
        ELSE <<x, w>>

\* Variant: the right-edge density gate left out.
expand_width_if_text_cut_no_edge_gate(t, x, w, maxexp) ==
    RepairVariant(t, x, w, maxexp, 850, FALSE, 1100, 0)

\* Variant: columns of exactly 850 px are not skipped (w > 850 for w >= 850).
expand_width_if_text_cut_skip_above(t, x, w, maxexp) ==
    RepairVariant(t, x, w, maxexp, 851, TRUE, 1100, 0)

\* Variant: the new width is not capped at the maximum column width.
expand_width_if_text_cut_no_cap(t, x, w, maxexp) ==
    RepairVariant(t, x, w, maxexp, 850, TRUE, 100000, 0)

\* Variant: a gain of exactly 40 px is accepted (>= for >).
expand_width_if_text_cut_any_gain(t, x, w, maxexp) ==
    RepairVariant(t, x, w, maxexp, 850, TRUE, 1100, 1)

expand_width_if_text_cut(t, x, w, maxexp) ==
    LET w_img == t.cols
        right_edge_start == Max(x + w - 40, x)
        right_edge_end == Min(x + w, w_img)
        expand_start == Min(x + w, w_img - 1)
        expand_end == Min(x + w + 60, w_img)
        expand_full_end == Min(x + w + maxexp, w_img)
        best_end == WalkBestEnd(t, expand_start, expand_full_end, expand_start)
        new_w == Min(best_end - x, 1100)
    IN  IF w >= 850 THEN <<x, w>>
        ELSE IF SliceSize(t, right_edge_start, right_edge_end) = 0 THEN <<x, w>>
        ELSE IF ~DensityAbove(t, right_edge_start, right_edge_end, 18) THEN <<x, w>>
        ELSE IF ~(expand_end > expand_start) THEN <<x, w>>
        ELSE IF ~DensityAbove(t, expand_start, expand_end, 12) THEN <<x, w>>
        ELSE IF ~(best_end > expand_start + 40) THEN <<x, w>>
        ELSE IF new_w > w + 40 THEN <<x, new_w>>
        ELSE <<x, w>>

(***************************************************************************)
(* Specification of the fallback estimator.                                *)
(***************************************************************************)
FallbackHeights == {0, 1, 2, MaxHeight}

InitFallback ==
    /\ pc = "ready"
    /\ fn = "get_fallback_coords"
    /\ width \in 0..MaxWidth
    /\ height \in FallbackHeights
    /\ box = NoValue
    /\ region = NoValue
    /\ thresh = NoValue
    /\ max_expand = 0
    /\ result = NoValue
    /\ calls = 0

CallFallback ==
    /\ pc = "ready"
    /\ fn = "get_fallback_coords"
    /\ result' = get_fallback_coords(width, height)
    /\ pc' = "returned"
    /\ calls' = calls + 1
    /\ UNCHANGED <<fn, width, height, box, region, thresh, max_expand>>

NextFallback == CallFallback

SpecFallback == InitFallback /\ [][NextFallback]_vars

(***************************************************************************)
(* Specification of the vertical-range normalizer: the function is called  *)
(* on a box, then again on the box it returned.                            *)
(***************************************************************************)
NormalizeBoxes ==
    {<<x, y, w, h>> : x \in {0, 100}, y \in {0, 500}, w \in {900}, h \in {0, 800}}

InitNormalize ==
    /\ pc = "ready"
    /\ fn = "expand_vertical_range"
    /\ width = 0
    /\ height \in 1..MaxHeight
    /\ box \in NormalizeBoxes
    /\ region = NoValue
    /\ thresh = NoValue
    /\ max_expand = 0
    /\ result = NoValue
    /\ calls = 0

CallNormalize ==
    /\ pc = "ready"
    /\ fn = "expand_vertical_range"
    /\ result' = expand_vertical_range(box, height)
    /\ pc' = "returned"
    /\ calls' = 1
    /\ UNCHANGED <<fn, width, height, box, region, thresh, max_expand>>

\* The caller feeds the returned box back into the function.
CallNormalizeAgain ==
    /\ pc = "returned"
    /\ fn = "expand_vertical_range"
    /\ calls < MaxCalls
    /\ result' = expand_vertical_range(result, height)
    /\ calls' = calls + 1
    /\ UNCHANGED <<pc, fn, width, height, box, region, thresh, max_expand>>

NextNormalize == CallNormalize \/ CallNormalizeAgain

SpecNormalize == InitNormalize /\ [][NextNormalize]_vars

(***************************************************************************)
(* Specification of the wide-region splitter: regions 0 <= x0 < x1 <=      *)
(* width on a grid of coordinates.                                         *)
(***************************************************************************)
SplitCoords ==
    {c \in {k * GridStep + d : k \in 0..(MaxSplitWidth \div GridStep),
                               d \in {0, GridStep - 1}} : c <= MaxSplitWidth}

InitSplit ==
    /\ pc = "ready"
    /\ fn = "split_wide_region"
    /\ width \in SplitCoords
    /\ height = 0
    /\ box = NoValue
    /\ region \in {<<x0, x1>> \in SplitCoords \X SplitCoords : x0 < x1 /\ x1 <= width}
    /\ thresh = NoValue
    /\ max_expand = 0
    /\ result = NoValue
    /\ calls = 0

CallSplit ==
    /\ pc = "ready"
    /\ fn = "split_wide_region"
    /\ result' = split_wide_region(region[1], region[2], width)
    /\ pc' = "returned"
    /\ calls' = calls + 1
    /\ UNCHANGED <<fn, width, height, box, region, thresh, max_expand>>

NextSplit == CallSplit

SpecSplit == InitSplit /\ [][NextSplit]_vars

(***************************************************************************)
(* Specification of the edge-cut repair.  The masks have three bands cut   *)
(* at the right edge e = x + w of the column and at the end of a run of    *)
(* ink beyond it: [0, e), [e, e + run), [e + run, cols).                   *)
(***************************************************************************)
RepairX == {0, 100}
RepairW == {20, 700, 849, 850}
RepairMargin == {0, 1, 21, 50, 300, 500}
RepairMaxExpand == {200, 100, 400}
InkLeft == {0, 18, 20, MaskRows}
InkRun == {0, 8, 9, 12, 15, MaskRows}
InkRest == {0, 9, MaskRows}
RunLengths == {10 * k : k \in 0..MaxRun}

Mask(cols, e, run, inkL, inkM, inkR) ==
    [rows |-> MaskRows, cols |-> cols,
     bands |-> << <<0, Min(e, cols), inkL>>,
                  <<Min(e, cols), Min(e + run, cols), inkM>>,
                  <<Min(e + run, cols), cols, inkR>> >>]

InitRepair ==
    /\ pc = "ready"
    /\ fn = "expand_width_if_text_cut"
    /\ box \in {<<x, 0, w, 0>> : x \in RepairX, w \in RepairW}
    /\ width \in {box[1] + box[3] + m : m \in RepairMargin}
    /\ height = MaskRows
    /\ region = NoValue
    /\ thresh \in {Mask(width, box[1] + box[3], run, inkL, inkM, inkR) :
                     run \in RunLengths, inkL \in InkLeft, inkM \in InkRun,
                     inkR \in InkRest}
    /\ max_expand \in RepairMaxExpand
    /\ result = NoValue
    /\ calls = 0

CallRepair ==
    /\ pc = "ready"
    /\ fn = "expand_width_if_text_cut"
    /\ result' = expand_width_if_text_cut(thresh, box[1], box[3], max_expand)
    /\ pc' = "returned"
    /\ calls' = calls + 1
    /\ UNCHANGED <<fn, width, height, box, region, thresh, max_expand>>

NextRepair == CallRepair

SpecRepair == InitRepair /\ [][NextRepair]_vars

(***************************************************************************)
(* Specification of the width validator.                                   *)
(***************************************************************************)
ValidateWidths == {0, 599, 600, 601, 900, 962, 1000, 1399, 1400, 1401}

InitWidthValid ==
    /\ pc = "ready"
    /\ fn = "validate_column_width"
    /\ width \in 0..MaxWidth
    /\ height = 0
    /\ box \in {<<0, 0, w, 0>> : w \in ValidateWidths}
    /\ region = NoValue
    /\ thresh = NoValue
    /\ max_expand = 0
    /\ result = NoValue
    /\ calls = 0

CallWidthValid ==
    /\ pc = "ready"
    /\ fn = "validate_column_width"
    /\ result' = validate_column_width(box[3], width)
    /\ pc' = "returned"
    /\ calls' = calls + 1
    /\ UNCHANGED <<fn, width, height, box, region, thresh, max_expand>>

NextWidthValid == CallWidthValid

SpecWidthValid == InitWidthValid /\ [][NextWidthValid]_vars

(***************************************************************************)
(* Specification of the first-column check.                                *)
(***************************************************************************)
FirstColumnX == {0, 49, 50, 51, 70, 80, 90, 149, 150}

InitFirstColumn ==
    /\ pc = "ready"
    /\ fn = "reject_first_column"
    /\ width \in 0..MaxWidth
    /\ height = 0
    /\ box \in {<<x, 0, 0, 0>> : x \in FirstColumnX}
    /\ region = NoValue
    /\ thresh = NoValue
    /\ max_expand = 0
    /\ result = NoValue
    /\ calls = 0

CallFirstColumn ==
    /\ pc = "ready"
    /\ fn = "reject_first_column"
    /\ result' = reject_first_column(box[1], width)
    /\ pc' = "returned"
    /\ calls' = calls + 1
    /\ UNCHANGED <<fn, width, height, box, region, thresh, max_expand>>

NextFirstColumn == CallFirstColumn

SpecFirstColumn == InitFirstColumn /\ [][NextFirstColumn]_vars

(***************************************************************************)
(* Specification of the batch: HebrewTextExtractor.process_all_images,     *)
(* which main.py calls.  The images of the input directory are processed   *)
(* one after the other; each goes through the pipeline                     *)
(*   Pending -> Loaded -> Binarized -> CandidateFound | CandidateAbsent    *)
(*   -> Validated | Rejected -> Split -> FallbackApplied                   *)
(*   -> VerticalNormalized -> EdgeRepaired -> Cropped -> Written,          *)
(* or ends Failed at the load or at the write.  The refinement steps call  *)
(* the functions of utils.py and validation.py.                            *)
(* Here pc is the stage of the current image, calls its number, width,     *)
(* height, thresh and box its raster, mask and current box, region the     *)
(* wide region a split started from, and result the terminal states of     *)
(* the images processed so far.                                            *)
(***************************************************************************)
PageSizes == {<<1600, 2400>>, <<3000, 3000>>, <<900, 1200>>}

Candidates ==
    {<<300, 500, 900, 800>>, <<300, 500, 700, 800>>, <<20, 100, 900, 2000>>,
     <<50, 0, 2000, 2800>>}

PageMasks(w_img, h_img) ==
    {[rows |-> h_img, cols |-> w_img, bands |-> << <<0, w_img, ink>> >>] :
        ink \in {0, h_img \div 5, h_img}}

Terminal == {"Written", "Failed"}

Rank(stage) ==
    CASE stage = "Pending" -> 0
      [] stage = "Loaded" -> 1
      [] stage = "Binarized" -> 2
      [] stage \in {"CandidateFound", "CandidateAbsent"} -> 3
      [] stage \in {"Validated", "Rejected"} -> 4
      [] stage = "Split" -> 5
      [] stage = "FallbackApplied" -> 6
      [] stage = "VerticalNormalized" -> 7
      [] stage = "EdgeRepaired" -> 8
      [] stage = "Cropped" -> 9
      [] stage \in Terminal -> 10

CandidateValid(b, w_img) ==
    validate_column_width(b[3], w_img) /\ ~reject_first_column(b[1], w_img)

\* The candidate was rejected for being too wide (not for being too narrow).
OverWidth(b, w_img) == ~validate_column_width(b[3], w_img) /\ b[3] >= 600

InitBatch ==
    /\ pc = "Pending"
    /\ fn = "process_all_images"
    /\ width = 0
    /\ height = 0
    /\ box = NoValue
    /\ region = NoValue
    /\ thresh = NoValue
    /\ max_expand = 200
    /\ result = <<>>
    /\ calls = 1

\* Variant: an unreadable image ends the batch (no later image is processed).
LoadFailed_aborts ==
    /\ pc = "Pending"
    /\ pc' = "Failed"
    /\ result' = Append(result, "Failed")
    /\ calls' = MaxImages
    /\ UNCHANGED <<fn, width, height, box, region, thresh, max_expand>>

\* The image is unreadable: logged, skipped.
LoadFailed ==
    /\ pc = "Pending"
    /\ pc' = "Failed"
    /\ result' = Append(result, "Failed")
    /\ UNCHANGED <<fn, width, height, box, region, thresh, max_expand, calls>>

LoadImage ==
    /\ pc = "Pending"
    /\ \E size \in PageSizes : width' = size[1] /\ height' = size[2]
    /\ pc' = "Loaded"
    /\ UNCHANGED <<fn, box, region, thresh, max_expand, result, calls>>

Binarize ==
    /\ pc = "Loaded"
    /\ thresh' \in PageMasks(width, height)
    /\ pc' = "Binarized"
    /\ UNCHANGED <<fn, width, height, box, region, max_expand, result, calls>>

FindCandidate ==
    /\ pc = "Binarized"
    /\ box' \in Candidates
    /\ pc' = "CandidateFound"
    /\ UNCHANGED <<fn, width, height, region, thresh, max_expand, result, calls>>

NoCandidate ==
    /\ pc = "Binarized"
    /\ pc' = "CandidateAbsent"
    /\ UNCHANGED <<fn, width, height, box, region, thresh, max_expand, result, calls>>

AcceptCandidate ==
    /\ pc = "CandidateFound"
    /\ CandidateValid(box, width)
    /\ pc' = "Validated"
    /\ UNCHANGED <<fn, width, height, box, region, thresh, max_expand, result, calls>>

RejectCandidate ==
    /\ pc = "CandidateFound"
    /\ ~CandidateValid(box, width)
    /\ pc' = "Rejected"
    /\ UNCHANGED <<fn, width, height, box, region, thresh, max_expand, result, calls>>

SplitCandidate ==
    /\ pc = "Rejected"
    /\ OverWidth(box, width)
    /\ region' = <<box[1], box[1] + box[3]>>
    /\ LET s == split_wide_region(box[1], box[1] + box[3], width)
       IN  box' = <<s[1], box[2], s[2], box[4]>>
    /\ pc' = "Split"
    /\ UNCHANGED <<fn, width, height, thresh, max_expand, result, calls>>

\* No valid candidate survives: the position-only estimate is used.
ApplyFallback ==
    /\ \/ pc = "CandidateAbsent"
       \/ pc = "Rejected" /\ ~OverWidth(box, width)
       \/ pc = "Split" /\ ~CandidateValid(box, width)
    /\ LET f == get_fallback_coords(width, height)
       IN  box' = <<f.x, f.y, f.w, f.h>>
    /\ pc' = "FallbackApplied"
    /\ UNCHANGED <<fn, width, height, region, thresh, max_expand, result, calls>>

NormalizeVertical ==
    /\ \/ pc = "Validated"
       \/ pc = "Split" /\ CandidateValid(box, width)
       \/ pc = "FallbackApplied"
    /\ box' = expand_vertical_range(box, height)
    /\ pc' = "VerticalNormalized"
    /\ UNCHANGED <<fn, width, height, region, thresh, max_expand, result, calls>>

RepairEdge ==
    /\ pc = "VerticalNormalized"
    /\ LET r == expand_width_if_text_cut(thresh, box[1], box[3], max_expand)
       IN  box' = <<r[1], box[2], r[2], box[4]>>
    /\ pc' = "EdgeRepaired"
    /\ UNCHANGED <<fn, width, height, region, thresh, max_expand, result, calls>>

Crop ==
    /\ pc = "EdgeRepaired"
    /\ pc' = "Cropped"
    /\ UNCHANGED <<fn, width, height, box, region, thresh, max_expand, result, calls>>

WriteImage ==
    /\ pc = "Cropped"
    /\ pc' = "Written"
    /\ result' = Append(result, "Written")
    /\ UNCHANGED <<fn, width, height, box, region, thresh, max_expand, calls>>

\* The output path is unwritable: logged, skipped.
WriteFailed ==
    /\ pc = "Cropped"
    /\ pc' = "Failed"
    /\ result' = Append(result, "Failed")
    /\ UNCHANGED <<fn, width, height, box, region, thresh, max_expand, calls>>

\* The batch continues with the next image, whatever the last one ended as.
NextImage ==
    /\ pc \in Terminal
    /\ calls < MaxImages
    /\ calls' = calls + 1
    /\ pc' = "Pending"
    /\ width' = 0
    /\ height' = 0
    /\ box' = NoValue
    /\ region' = NoValue
    /\ thresh' = NoValue
    /\ UNCHANGED <<fn, max_expand, result>>

NextBatch ==
    \/ LoadFailed \/ LoadImage \/ Binarize \/ FindCandidate \/ NoCandidate
    \/ AcceptCandidate \/ RejectCandidate \/ SplitCandidate \/ ApplyFallback
    \/ NormalizeVertical \/ RepairEdge \/ Crop \/ WriteImage \/ WriteFailed
    \/ NextImage

\* The loop over the images runs each image to its end and goes on to the next.
SpecBatch == InitBatch /\ [][NextBatch]_vars /\ WF_vars(NextBatch)

(***************************************************************************)
(* Properties.                                                             *)
(***************************************************************************)
Returned(f) == pc = "returned" /\ fn = f

Abs(a) == IF a >= 0 THEN a ELSE -a

\* r is an integer nearest to n * pct / 100 (either neighbour on a tie).
IsNearestPct(r, n, pct) == 2 * Abs(100 * r - n * pct) <= 100

\* The integers nearest to n * pct / 100, n >= 0.
NearestPct(n, pct) ==
    {r \in {(n * pct) \div 100, (n * pct) \div 100 + 1} : IsNearestPct(r, n, pct)}

\* The largest integer not above n * pct / 100, n >= 0.
FloorPct(n, pct) == (n * pct) \div 100

Clamp(v, lo, hi) == IF v < lo THEN lo ELSE IF v > hi THEN hi ELSE v

\* C1: after Fallback the box lies inside the image: for width >= 1 and
\* height >= 1 the box of get_fallback_coords has 0 <= x, 0 <= y,
\* x + w <= width and y + h <= height.
C1_FallbackInsideImage ==
    (Returned("get_fallback_coords") /\ width >= 1 /\ height >= 1) =>
        /\ 0 <= result.x
        /\ 0 <= result.y
        /\ result.x + result.w <= width
        /\ result.y + result.h <= height

\* C2: after Repair the box lies inside the image: for an input with
\* 0 <= x and x + w <= width, expand_width_if_text_cut returns (x, w') with
\* x + w' <= width.
C2_RepairInsideImage ==
    (Returned("expand_width_if_text_cut") /\ 0 <= box[1] /\ box[1] + box[3] <= width) =>
        result[1] + result[2] <= width

\* C3: expand_vertical_range returns a box that starts at or above 2% of
\* the image height (and 50 px), and whose height is at least 85% of the
\* image height, rounded, unless the box ends at the hard bound height - 1.
C3_NormalizeCoverage ==
    Returned("expand_vertical_range") =>
        /\ 0 <= result[2]
        /\ result[2] <= 50
        /\ 100 * result[2] <= 2 * height
        /\ \/ \A r \in NearestPct(height, 85) : result[4] >= r
           \/ result[2] + result[4] = height - 1

C3_Witness ==
    /\ Returned("expand_vertical_range")
    /\ height = 2000
    /\ box = <<100, 500, 900, 800>>
    /\ result[2] = 40
    /\ result[4] = 1820

\* C4: for a region 0 <= x0 < x1 <= width the width returned by
\* split_wide_region is at least 800 and at most 1100.
C4_SplitWidthInRange ==
    (Returned("split_wide_region") /\ 0 <= region[1] /\ region[1] < region[2]
        /\ region[2] <= width) =>
        /\ 800 <= result[2]
        /\ result[2] <= 1100

\* C5: expand_width_if_text_cut never widens the column by more than
\* max_expand: the returned width is at most w + max_expand.
C5_RepairWithinMaxExpand ==
    Returned("expand_width_if_text_cut") => result[2] <= box[3] + max_expand

\* C6 as stated: get_fallback_coords returns x = round(0.28 * width), y = 0,
\* w = clamp(round(0.4 * width), 700, 1100), h = height, for width >= 1 and
\* height >= 1, with round the nearest integer.
C6_FallbackFormulaRounded ==
    (Returned("get_fallback_coords") /\ width >= 1 /\ height >= 1) =>
        /\ IsNearestPct(result.x, width, 28)
        /\ result.y = 0
        /\ \E r \in NearestPct(width, 40) : result.w = Clamp(r, 700, 1100)
        /\ result.h = height

\* C6 amended: get_fallback_coords returns x = floor(0.28 * width), y = 0,
\* w = clamp(floor(0.4 * width), 700, 1100), h = height, for width >= 1 and
\* height >= 1: the products are truncated, not rounded to the nearest.
C6_FallbackFormula ==
    (Returned("get_fallback_coords") /\ width >= 1 /\ height >= 1) =>
        /\ 100 * result.x <= 28 * width
        /\ 28 * width < 100 * (result.x + 1)
        /\ result.y = 0
        /\ result.w = Clamp(FloorPct(width, 40), 700, 1100)
        /\ result.h = height

C6_Witness ==
    /\ Returned("get_fallback_coords")
    /\ width = 1000
    /\ height = MaxHeight
    /\ result = [x |-> 280, y |-> 0, w |-> 700, h |-> MaxHeight]

\* C7: get_fallback_coords never fails and keeps the page top: for every
\* width >= 0 and height >= 0 the call returns, and the box it returns has
\* y = 0, h = height and 700 <= w <= 1100.
C7_FallbackTotal ==
    /\ (pc = "ready" /\ fn = "get_fallback_coords" /\ width >= 0 /\ height >= 0) =>
           ENABLED CallFallback
    /\ (Returned("get_fallback_coords") /\ width >= 0 /\ height >= 0) =>
           /\ DOMAIN result = {"x", "y", "w", "h"}
           /\ result.y = 0
           /\ result.h = height
           /\ 700 <= result.w
           /\ result.w <= 1100

C7_Witness ==
    /\ Returned("get_fallback_coords")
    /\ width = 0
    /\ height = 0
    /\ result.w = 700

\* The box the claim C8 describes, from the three products y2 (2%), y93
\* (93%) and y85 (85%) of the image height.
NormalizedBox(b, h_img, y2, y93, y85) ==
    LET y0 == Max(0, Min(50, y2))
        y1 == Min(h_img - 1, y93)
        y1x == IF y1 - y0 < y85 THEN Min(h_img - 1, y0 + y85) ELSE y1
    IN  <<b[1], y0, b[3], y1x - y0>>

\* C8 as stated: expand_vertical_range(box, H) returns (box.x, y0, box.w,
\* y1 - y0) with y0 = max(0, min(50, round(0.02 H))), y1 = min(H - 1,
\* round(0.93 H)), re-extended to min(H - 1, y0 + round(0.85 H)) when
\* y1 - y0 < round(0.85 H), with round the nearest integer.
C8_NormalizeFormulaRounded ==
    (Returned("expand_vertical_range") /\ calls = 1) =>
        \E y2 \in NearestPct(height, 2), y93 \in NearestPct(height, 93),
           y85 \in NearestPct(height, 85) :
            result = NormalizedBox(box, height, y2, y93, y85)

\* C8 amended: the same with every product truncated (floor) instead of
\* rounded to the nearest integer; the result is a function of box.x, box.w
\* and H only, whatever box.y and box.h are.
C8_NormalizeFormula ==
    (Returned("expand_vertical_range") /\ calls = 1) =>
        result = NormalizedBox(<<box[1], 0, box[3], 0>>, height,
                               FloorPct(height, 2), FloorPct(height, 93),
                               FloorPct(height, 85))

C8_Witness ==
    /\ Returned("expand_vertical_range")
    /\ calls = 1
    /\ height = 2000
    /\ box = <<100, 500, 900, 800>>
    /\ result = <<100, 40, 900, 1820>>

\* C9: expand_vertical_range is idempotent: called on the box it returned,
\* with the same image height, it returns that box again.
C9_NormalizeIdempotent ==
    [][(Returned("expand_vertical_range") /\ calls >= 1) => result' = result]_vars

C9_Witness ==
    /\ Returned("expand_vertical_range")
    /\ calls = 2
    /\ box[2] # result[2]

\* C10: expand_vertical_range leaves the horizontal extent alone: the x and
\* the width it returns are those of the box it was given.
C10_NormalizeKeepsHorizontal ==
    (Returned("expand_vertical_range") /\ calls = 1) =>
        /\ result[1] = box[1]
        /\ result[3] = box[3]

C10_Witness ==
    /\ Returned("expand_vertical_range")
    /\ calls = 1
    /\ box = <<100, 500, 900, 800>>
    /\ result[1] = 100
    /\ result[3] = 900
    /\ result[4] # box[4]

\* C11: after Normalize the vertical part of the box invariant holds: for
\* every image height >= 1 the box of expand_vertical_range has y >= 0,
\* height >= 0 and y + height <= image height.
C11_NormalizeInsideImage ==
    (Returned("expand_vertical_range") /\ height >= 1) =>
        /\ result[2] >= 0
        /\ result[4] >= 0
        /\ result[2] + result[4] <= height

C11_Witness ==
    /\ Returned("expand_vertical_range")
    /\ height = 1
    /\ result[2] = 0
    /\ result[4] = 0

\* The pair the claim C12 describes, from the products q25 (25% of the image
\* width) and q30 (30% of the region width).
SplitPair(x0, x1, q25, q30) ==
    LET s1 == IF x0 < 100 THEN Max(400, q25) ELSE Max(x0 + 400, x0 + q30)
        s2 == IF x1 - s1 < 800 THEN Max(400, Max(x0, x1 - 1100)) ELSE s1
    IN  <<s2, Min(x1 - s2, 1100)>>

\* C12 as stated: split_wide_region(x0, x1, W) returns (splitX, min(x1 -
\* splitX, 1100)) with splitX = max(400, round(0.25 W)) if x0 < 100, else
\* max(x0 + 400, round(x0 + 0.3 (x1 - x0))), replaced by max(400, max(x0,
\* x1 - 1100)) if x1 - splitX < 800, with round the nearest integer.
C12_SplitFormulaRounded ==
    Returned("split_wide_region") =>
        \E q25 \in NearestPct(width, 25), q30 \in NearestPct(region[2] - region[1], 30) :
            result = SplitPair(region[1], region[2], q25, q30)

\* C12 amended: the same with both products truncated (floor) instead of
\* rounded to the nearest integer.
C12_SplitFormula ==
    Returned("split_wide_region") =>
        result = SplitPair(region[1], region[2], FloorPct(width, 25),
                           FloorPct(region[2] - region[1], 30))

C12_Witness ==
    /\ Returned("split_wide_region")
    /\ region = <<50, 1400>>
    /\ width = 1600
    /\ result = <<400, 1000>>

\* C13: after Split the result lies inside the wide region and the image:
\* for 0 <= x0 < x1 <= width the pair (x, w) of split_wide_region has
\* x0 <= x, 0 <= x, x + w <= x1 and x1 <= width.
C13_SplitInsideRegion ==
    (Returned("split_wide_region") /\ 0 <= region[1] /\ region[1] < region[2]
        /\ region[2] <= width) =>
        /\ region[1] <= result[1]
        /\ 0 <= result[1]
        /\ result[1] + result[2] <= region[2]
        /\ region[2] <= width

\* The minimum-width adjustment has moved the split point back to x0.
C13_Witness ==
    /\ Returned("split_wide_region")
    /\ region = <<500, 1500>>
    /\ result = <<500, 1000>>

\* C14 as stated: validate_column_width(w, W) is true if and only if
\* 600 <= w <= min(1400, round(0.6 W)), with round the nearest integer.
C14_WidthValidFormulaRounded ==
    Returned("validate_column_width") =>
        \E q60 \in NearestPct(width, 60) :
            result = (600 <= box[3] /\ box[3] <= Min(1400, q60))

\* C14 amended: validate_column_width(w, W) is true if and only if
\* 600 <= w <= min(1400, floor(0.6 W)): the product is truncated.
C14_WidthValidFormula ==
    Returned("validate_column_width") =>
        result = (600 <= box[3] /\ box[3] <= 1400 /\ 10 * box[3] <= 6 * width)

C14_Witness ==
    /\ Returned("validate_column_width")
    /\ box[3] = 900
    /\ width = 1600
    /\ result = TRUE

\* C15: a width validate_column_width accepts is at most 60% of the page
\* width, and between 600 and 1400.
C15_ValidWidthWithinPage ==
    (Returned("validate_column_width") /\ result = TRUE) =>
        /\ 10 * box[3] <= 6 * width
        /\ 600 <= box[3]
        /\ box[3] <= 1400

\* An accepted width that is exactly 60% of the page.
C15_Witness ==
    /\ Returned("validate_column_width")
    /\ result = TRUE
    /\ 10 * box[3] = 6 * width

\* C16 as stated: reject_first_column(x, W) is true if and only if
\* x < max(50, round(0.05 W)), with round the nearest integer.
C16_FirstColumnFormulaRounded ==
    Returned("reject_first_column") =>
        \E q5 \in NearestPct(width, 5) : result = (box[1] < Max(50, q5))

\* C16 amended: reject_first_column(x, W) is true if and only if
\* x < max(50, floor(0.05 W)): the product is truncated.
C16_FirstColumnFormula ==
    Returned("reject_first_column") =>
        result = (box[1] < 50 \/ 100 * (box[1] + 1) <= 5 * width)

C16_Witness ==
    /\ Returned("reject_first_column")
    /\ box[1] = 70
    /\ width = 1600
    /\ result = TRUE

\* The column changed: the returned width is not the width passed in.
RepairChanged == Returned("expand_width_if_text_cut") /\ result[2] # box[3]

\* The rightmost 40 px of the column (the whole column if it is narrower).
RightEdgeAbove(pct) ==
    DensityAbove(thresh, Max(box[1] + box[3] - 40, box[1]), box[1] + box[3], pct)

\* The 60 px just beyond the right edge of the column, as far as the image goes.
BeyondAbove(pct) ==
    DensityAbove(thresh, box[1] + box[3], box[1] + box[3] + 60, pct)

\* C17: expand_width_if_text_cut changes the width only when every gate
\* passes: w < 850, ink density of the rightmost 40 px of the column above
\* 0.18 and ink density of the 60 px beyond the right edge above 0.12; so
\* with a right-edge density of at most 0.18 the result is (x, w).
C17_RepairOnlyOnEvidence ==
    RepairChanged =>
        /\ box[3] < 850
        /\ RightEdgeAbove(18)
        /\ BeyondAbove(12)

C17_Witness ==
    /\ RepairChanged
    /\ box[3] = 700
    /\ RightEdgeAbove(18)
    /\ BeyondAbove(12)

\* C18: expand_width_if_text_cut returns (x, w) unchanged for every column
\* with w >= 850, whatever the mask, x and max_expand.
C18_RepairSkipsWide ==
    (Returned("expand_width_if_text_cut") /\ box[3] >= 850) =>
        result = <<box[1], box[3]>>

\* A column of 850 px whose densities would pass every gate.
C18_Witness ==
    /\ Returned("expand_width_if_text_cut")
    /\ box[3] = 850
    /\ RightEdgeAbove(18)
    /\ BeyondAbove(12)
    /\ thresh.bands[3][3] = MaskRows
    /\ width = box[1] + box[3] + 500
    /\ result = <<box[1], 850>>

\* C19: expand_width_if_text_cut never grows the column beyond the maximum
\* column width: a returned width that differs from w is at most 1100.
C19_RepairCapped ==
    RepairChanged => result[2] <= 1100

\* The walk went past 1100 px and the cap applied.
C19_Witness ==
    /\ RepairChanged
    /\ max_expand = 400
    /\ result[2] = 1100

\* C20: an expansion is meaningful and never a shrink: the result is (x, w')
\* with w' = w or w' > w + 40, and the returned x is the x passed in.
C20_RepairMeaningful ==
    Returned("expand_width_if_text_cut") =>
        /\ result[1] = box[1]
        /\ \/ result[2] = box[3]
           \/ result[2] > box[3] + 40

\* The smallest expansion: two strips of the walk, 60 px.
C20_Witness ==
    /\ Returned("expand_width_if_text_cut")
    /\ result[1] = box[1]
    /\ result[2] = box[3] + 60

\* The 40 px strip of the walk that starts d px beyond the right edge.
StripAbove(d, pct) ==
    DensityAbove(thresh, box[1] + box[3] + d, box[1] + box[3] + d + 40, pct)

\* The gates pass and the ink beyond the right edge ends after 80 px: the
\* strips at 0, 20 and 40 px hold more than 0.08 ink, the strip at 60 px does not.
RepairRunOf80 ==
    /\ Returned("expand_width_if_text_cut")
    /\ box[3] < 850
    /\ max_expand > 40
    /\ RightEdgeAbove(18)
    /\ BeyondAbove(12)
    /\ StripAbove(0, 8) /\ StripAbove(20, 8) /\ StripAbove(40, 8)
    /\ ~StripAbove(60, 8)

\* C21: when the repair fires it returns the end of the contiguous ink the
\* walk found: for an eligible column (w < 850) whose right-edge and
\* beyond-edge densities pass the gates (0.20 and 0.15 in the example) and
\* whose ink beyond the edge ends after 80 px, the result is (x, w + 80),
\* capped at 1100.
C21_RepairReturnsInkEnd ==
    RepairRunOf80 => result = <<box[1], Min(box[3] + 80, 1100)>>

\* The example: w = 700, right-edge density 0.20, a run of 80 px of density
\* 0.15 beyond the edge, nothing after it.
C21_Witness ==
    /\ RepairRunOf80
    /\ box[3] = 700
    /\ max_expand = 200
    /\ 100 * thresh.bands[1][3] = 20 * thresh.rows
    /\ 100 * thresh.bands[2][3] = 15 * thresh.rows
    /\ thresh.bands[2][2] = box[1] + box[3] + 80
    /\ thresh.bands[3][3] = 0
    /\ result = <<box[1], 780>>

\* C22: failures are isolated and every image terminates: every image of
\* the batch eventually reaches one terminal state, Written or Failed, which
\* it keeps; within an image the stages only advance (none is revisited);
\* and after a Failed image the batch goes on to the next image, which can
\* be loaded.
C22_BatchIsolatesFailures ==
    /\ \A i \in 1..MaxImages : <>(Len(result) >= i)
    /\ [](/\ Len(result) \in {calls - 1, calls}
          /\ \A i \in 1..Len(result) : result[i] \in Terminal
          /\ (pc \in Terminal) = (Len(result) = calls)
          /\ (pc = "Failed" /\ calls < MaxImages) => ENABLED NextImage
          /\ (pc = "Pending") => ENABLED LoadImage)
    /\ [][/\ Len(result') >= Len(result)
          /\ \A i \in 1..Len(result) : result'[i] = result[i]
          /\ (calls' = calls) => Rank(pc') > Rank(pc)]_vars

\* The first image failed and the second was written.
C22_Witness ==
    /\ pc = "Written"
    /\ calls = 2
    /\ result = <<"Failed", "Written">>

\* The vertical extent expand_vertical_range gives for an image height.
NormalizedVertical(h_img) ==
    LET b == NormalizedBox(<<0, 0, 0, 0>>, h_img, FloorPct(h_img, 2),
                           FloorPct(h_img, 93), FloorPct(h_img, 85))
    IN  <<b[2], b[4]>>

\* C23: no image is cropped without the vertical normalization: on every
\* path (validated detection, split, fallback) the box that is cropped has
\* the vertical extent of expand_vertical_range for the image height, with
\* 0 <= y <= min(50, 2% of the height); the edge repair is reached only
\* from VerticalNormalized and leaves y and the height of the box unchanged.
C23_CroppedIsNormalized ==
    /\ [](pc \in {"VerticalNormalized", "EdgeRepaired", "Cropped"} =>
            /\ <<box[2], box[4]>> = NormalizedVertical(height)
            /\ 0 <= box[2]
            /\ box[2] <= 50
            /\ 100 * box[2] <= 2 * height)
    /\ [][/\ (pc' = "Cropped") => (pc = "EdgeRepaired" /\ box' = box)
          /\ (pc' = "EdgeRepaired") =>
                /\ pc = "VerticalNormalized"
                /\ box'[2] = box[2]
                /\ box'[4] = box[4]]_vars

\* A detected box with y = 500 was validated, normalized and widened by the
\* repair before the crop.
C23_Witness ==
    /\ pc = "Cropped"
    /\ height = 2400
    /\ region = NoValue
    /\ box[2] = 48
    /\ box[3] > 700
    /\ box[1] = 300

\* C24: the width split_wide_region returns is at least 800 exactly when
\* the region can supply it: for 0 <= x0 < x1 <= width, w >= 800 if and only
\* if x1 - x0 >= 800 and x1 >= 1200; otherwise w = min(x1 - 400, x1 - x0),
\* which is zero or negative when x1 <= 400.
C24_SplitWidthWhenAvailable ==
    (Returned("split_wide_region") /\ 0 <= region[1] /\ region[1] < region[2]
        /\ region[2] <= width) =>
        /\ (result[2] >= 800) = (region[2] - region[1] >= 800 /\ region[2] >= 1200)
        /\ (result[2] < 800) =>
               result[2] = Min(region[2] - 400, region[2] - region[1])
        /\ (region[2] <= 400) => result[2] <= 0

\* A region 900 px wide that ends left of 1200: 600 px are returned.
C24_Witness ==
    /\ Returned("split_wide_region")
    /\ region = <<100, 1000>>
    /\ result = <<400, 600>>

\* C25: the fallback estimate passes the validator only on wide enough
\* pages: the box of get_fallback_coords(width, height) has a valid width
\* and does not start in the first column if and only if width >= 1167.
C25_FallbackValidOnWidePages ==
    Returned("get_fallback_coords") =>
        (validate_column_width(result.w, width) /\ ~reject_first_column(result.x, width))
            = (width >= 1167)

\* The narrowest page whose fallback box is valid: 700 <= int(0.6 * 1167).
C25_Witness ==
    /\ Returned("get_fallback_coords")
    /\ width = 1167
    /\ result.w = 700
    /\ validate_column_width(result.w, width)
    /\ ~validate_column_width(result.w, width - 1)

\* C26: the re-extension of expand_vertical_range never has an effect: for
\* every image height >= 1 the first height y1 - y0 is already at least the
\* 85% threshold, and the box returned is (box.x, y0, box.w,
\* min(height - 1, 93% of height) - y0).
C26_ReextensionNeverEffective ==
    (Returned("expand_vertical_range") /\ calls = 1 /\ height >= 1) =>
        LET y1_first == Min(height - 1, FloorPct(height, 93))
        IN  /\ y1_first - result[2] >= FloorPct(height, 85)
            /\ result = <<box[1], result[2], box[3], y1_first - result[2]>>

\* The smallest margin: at height 17 the first height is 15 and 85% is 14.
C26_Witness ==
    /\ Returned("expand_vertical_range")
    /\ calls = 1
    /\ height = 17
    /\ result[4] = 15

\* C27: the x split_wide_region returns is never left of 400 px, on the
\* position-based branch, the proportional branch and the adjustment.
C27_SplitNotLeftOf400 ==
    Returned("split_wide_region") => result[1] >= 400

\* The adjustment was taken and the clamp to 400 decided the split point.
C27_Witness ==
    /\ Returned("split_wide_region")
    /\ region = <<0, 1000>>
    /\ result = <<400, 600>>

\* C28: on pages narrower than 1000 px no width passes the validation:
\* for width < 1000 validate_column_width(w, width) is false for every w.
C28_NarrowPagesNeverValid ==
    (Returned("validate_column_width") /\ width < 1000) => result = FALSE

\* The lower bound itself is refused on a page of 999 px (60% is 599).
C28_Witness ==
    /\ Returned("validate_column_width")
    /\ width = 999
    /\ box[3] = 600
    /\ result = FALSE

====
